---- MODULE Spec2Model ----
(***************************************************************************)
(* A model of the go.util http package: the enumerations of constants.go,  *)
(* the Client wrapper and the Request builder with its terminal Do.        *)
(*                                                                         *)
(* Header values, MIME types, methods and bodies are TLA+ strings.  URLs,  *)
(* query/path parameter names and values are sequences of one-character    *)
(* strings, so that escaping and substring replacement are computed.       *)
(* Go maps are objects on a heap: a Request holds the addresses of its     *)
(* three maps, as the Go struct holds three map references.                *)
(***************************************************************************)
EXTENDS Integers, Sequences, FiniteSets, TLC

VARIABLES clients, req, heap, pc, call, pre, exec, actor

vars == <<clients, req, heap, pc, call, pre, exec, actor>>

---------------------------------------------------------------------------
(* Enumerations (constants.go) *)

charsetUTF8 == "charset=UTF-8"
MIMEApplicationJSON == "application/json"
MIMEApplicationJSONCharsetUTF8 == MIMEApplicationJSON \o "; " \o charsetUTF8
MIMEApplicationXML == "application/xml"
MIMEApplicationXMLCharsetUTF8 == MIMEApplicationXML \o "; " \o charsetUTF8
MIMETextXML == "text/xml"
MIMETextXMLCharsetUTF8 == MIMETextXML \o "; " \o charsetUTF8
MIMETextPlain == "text/plain"

HeaderAuthorization == "Authorization"
HeaderContentLength == "Content-Length"
HeaderContentType == "Content-Type"
HeaderAccept == "Accept"

MethodGet == "GET"
MethodHead == "HEAD"
MethodPost == "POST"
MethodPut == "PUT"
MethodPatch == "PATCH"
MethodDelete == "DELETE"
MethodOptions == "OPTIONS"

\* NewMIME / MIME.String: a type conversion of the same string.
NewMIME(mime) == mime

\* NewStatus: a type conversion of the same integer.
NewStatus(statusCode) == statusCode

\* An IsSuccess that takes 300 for a success.
IsSuccessInclusive(s) == s >= 200 /\ s <= 300

\* Status.IsSuccess
IsSuccess(s) == s >= 200 /\ s < 300

\* net/http.StatusText for the codes the model uses; "" for an unknown code.
StatusText(code) ==
    CASE code = 200 -> "OK"
      [] code = 201 -> "Created"
      [] code = 204 -> "No Content"
      [] code = 300 -> "Multiple Choices"
      [] code = 404 -> "Not Found"
      [] code = 500 -> "Internal Server Error"
      [] OTHER -> ""

\* fmt.Sprintf("%d", n): the decimal digits of n >= 0
Digit(d) == <<"0", "1", "2", "3", "4", "5", "6", "7", "8", "9">>[d + 1]
RECURSIVE Itoa(_)
Itoa(n) == IF n < 10 THEN Digit(n) ELSE Itoa(n \div 10) \o Digit(n % 10)

\* Status.String: "<code>: <reason>"
StatusString(s) == Itoa(s) \o ": " \o StatusText(s)

---------------------------------------------------------------------------
(* Go maps, and the library functions Do relies on *)

EmptyMap == [k \in {} |-> ""]

\* m[k] = v on a Go map
MapSet(m, k, v) == [x \in DOMAIN m \cup {k} |-> IF x = k THEN v ELSE m[x]]

\* A bulk setter that drops the entries it is not given, instead of merging.
SetAllReplacing(m, params) == params

\* for name, value := range params { r.SetX(name, value) }
RECURSIVE SetAll(_, _)
SetAll(m, params) ==
    IF DOMAIN params = {} THEN m
    ELSE LET k == CHOOSE x \in DOMAIN params : TRUE
         IN SetAll(MapSet(m, k, params[k]),
                   [x \in DOMAIN params \ {k} |-> params[x]])

\* The orders in which a range loop may visit the keys of a map.
Orders(S) == {o \in [1..Cardinality(S) -> S] : \A i, j \in 1..Cardinality(S) : o[i] = o[j] => i = j}

\* url.QueryEscape of one character: unreserved characters are kept, a space
\* becomes "+", anything else its %XX escape.
EscapeChar(c) ==
    CASE c = " " -> <<"+">>
      [] c = "/" -> <<"%", "2", "F">>
      [] c = "%" -> <<"%", "2", "5">>
      [] c = "?" -> <<"%", "3", "F">>
      [] c = "=" -> <<"%", "3", "D">>
      [] c = "&" -> <<"%", "2", "6">>
      [] c = "+" -> <<"%", "2", "B">>
      [] OTHER -> <<c>>

\* url.QueryEscape
RECURSIVE QueryEscape(_)
QueryEscape(s) == IF s = <<>> THEN <<>> ELSE EscapeChar(Head(s)) \o QueryEscape(Tail(s))

\* strings.Replace(s, old, new, -1) with old = "": new before every character
\* and at the end.
RECURSIVE Intersperse(_, _)
Intersperse(s, new) == IF s = <<>> THEN new ELSE new \o <<Head(s)>> \o Intersperse(Tail(s), new)

\* strings.Replace(s, old, new, -1): the non-overlapping occurrences, leftmost
\* first.
RECURSIVE Replace(_, _, _)
Replace(s, old, new) ==
    IF old = <<>> THEN Intersperse(s, new)
    ELSE IF Len(s) < Len(old) THEN s
    ELSE IF SubSeq(s, 1, Len(old)) = old
         THEN new \o Replace(SubSeq(s, Len(old) + 1, Len(s)), old, new)
         ELSE <<Head(s)>> \o Replace(Tail(s), old, new)

\* strings.Join(parts, sep)
RECURSIVE Join(_, _)
Join(parts, sep) ==
    IF parts = <<>> THEN <<>>
    ELSE IF Len(parts) = 1 THEN parts[1]
    ELSE parts[1] \o sep \o Join(Tail(parts), sep)

\* strings.Trim(token, " ") on a token given as its pieces: the leading and
\* trailing blanks go.
RECURSIVE TrimLeft(_)
TrimLeft(t) == IF t # <<>> /\ Head(t) = " " THEN TrimLeft(Tail(t)) ELSE t
RECURSIVE TrimRight(_)
TrimRight(t) == IF t # <<>> /\ t[Len(t)] = " " THEN TrimRight(SubSeq(t, 1, Len(t) - 1)) ELSE t
Trim(t) == TrimRight(TrimLeft(t))

\* The Go string of a sequence of pieces.
RECURSIVE Str(_)
Str(t) == IF t = <<>> THEN "" ELSE Head(t) \o Str(Tail(t))

\* base64.StdEncoding.EncodeToString, kept symbolic: an injective encoding
\* that is not the identity.
Base64(s) == "b64(" \o s \o ")"

---------------------------------------------------------------------------
(* Values, errors and codecs *)

\* The body of a builder that was given none (a nil interface).
NilBody == "<nil>"

\* A Go value that neither codec can encode (a channel).
ChanBody == "<chan>"

\* The nil output sink, and a pointer to a caller's variable.
NilSink == "nil"
PtrSink == "ptr"

\* The content of the caller's variable before anything was decoded into it.
Unset == "<unset>"

\* The longest body value, in characters.
MaxBodyLen == 2

RECURSIVE Rep(_)
Rep(k) == IF k = 0 THEN "" ELSE "a" \o Rep(k - 1)

\* The values a codec can encode and decode: Go strings.
Values == {Rep(k) : k \in 0..MaxBodyLen}

NoErr == [kind |-> "nil", arg |-> ""]
Err(kind, arg) == [kind |-> kind, arg |-> arg]

\* fmt's %s of a value
Sprint(val) == val

\* json.Marshal
JSONMarshal(val) ==
    IF val \in Values
    THEN [bytes |-> "\"" \o val \o "\"", err |-> NoErr]
    ELSE [bytes |-> "", err |-> Err("json", "unsupported type")]

\* xml.Marshal
XMLMarshal(val) ==
    IF val \in Values
    THEN [bytes |-> "<string>" \o val \o "</string>", err |-> NoErr]
    ELSE [bytes |-> "", err |-> Err("xml", "unsupported type")]

\* json.Unmarshal: the value whose encoding the bytes are, or a syntax error.
JSONUnmarshal(bytes) ==
    IF \E v \in Values : JSONMarshal(v).bytes = bytes
    THEN [val |-> CHOOSE v \in Values : JSONMarshal(v).bytes = bytes, err |-> NoErr, codec |-> "json"]
    ELSE [val |-> Unset, err |-> Err("json", "syntax error"), codec |-> "json"]

\* xml.Unmarshal
XMLUnmarshal(bytes) ==
    IF \E v \in Values : XMLMarshal(v).bytes = bytes
    THEN [val |-> CHOOSE v \in Values : XMLMarshal(v).bytes = bytes, err |-> NoErr, codec |-> "xml"]
    ELSE [val |-> Unset, err |-> Err("xml", "syntax error"), codec |-> "xml"]

\* A marshal that falls back to JSON when no Content-Type is set.
marshalDefaultingToJSON(headers, val) ==
    IF val = NilBody THEN [bytes |-> "", err |-> NoErr]
    ELSE LET mime == IF HeaderContentType \in DOMAIN headers
                     THEN NewMIME(headers[HeaderContentType])
                     ELSE MIMEApplicationJSON
         IN IF mime \in {MIMEApplicationJSON, MIMEApplicationJSONCharsetUTF8}
            THEN JSONMarshal(val)
            ELSE IF mime \in {MIMEApplicationXML, MIMEApplicationXMLCharsetUTF8}
            THEN XMLMarshal(val)
            ELSE [bytes |-> "", err |-> Err("serializing format not supported", Sprint(val))]

\* Request.marshal
marshal(headers, val) ==
    IF val = NilBody THEN [bytes |-> "", err |-> NoErr]
    ELSE IF HeaderContentType \notin DOMAIN headers
    THEN [bytes |-> "", err |-> Err("not defined", HeaderContentType)]
    ELSE LET mime == NewMIME(headers[HeaderContentType])
         IN IF mime \in {MIMEApplicationJSON, MIMEApplicationJSONCharsetUTF8}
            THEN JSONMarshal(val)
            ELSE IF mime \in {MIMEApplicationXML, MIMEApplicationXMLCharsetUTF8}
            THEN XMLMarshal(val)
            ELSE [bytes |-> "", err |-> Err("serializing format not supported", Sprint(val))]

\* Request.unmarshall; ioutil.ReadAll of the in-memory buffer does not fail.
unmarshall(mime, body) ==
    IF mime \in {MIMEApplicationJSON, MIMEApplicationJSONCharsetUTF8}
    THEN JSONUnmarshal(body)
    ELSE IF mime \in {MIMEApplicationXML, MIMEApplicationXMLCharsetUTF8}
    THEN XMLUnmarshal(body)
    ELSE [val |-> Unset, err |-> Err("deserializing format not supported", mime), codec |-> "none"]

\* http.Header.Get: "" for a header that is absent.
HeaderGet(h, name) == IF name \in DOMAIN h THEN h[name] ELSE ""

---------------------------------------------------------------------------
(* The URL and the request Do builds *)

\* The "name=value" pairs of Do's first loop, in the order the map is visited.
QueryPairs(queryParams, order) ==
    [i \in 1..Len(order) |->
        QueryEscape(order[i]) \o <<"=">> \o QueryEscape(queryParams[order[i]])]

\* Do's second loop: one strings.Replace per path parameter, in the order the
\* map is visited.
RECURSIVE ReplacePathParams(_, _, _)
ReplacePathParams(URL, pathParams, order) ==
    IF order = <<>> THEN URL
    ELSE ReplacePathParams(Replace(URL, Head(order), QueryEscape(pathParams[Head(order)])),
                           pathParams, Tail(order))

\* The URL of Do, lines 137-145.
FinalURL(URL, queryParams, qorder, pathParams, porder) ==
    ReplacePathParams(URL \o <<"?">> \o Join(QueryPairs(queryParams, qorder), <<"&">>),
                      pathParams, porder)

IsHex(c) == c \in {"0", "1", "2", "3", "4", "5", "6", "7", "8", "9", "A", "B", "C", "D", "E", "F"}

\* url.Parse rejects a "%" that does not start a %XX escape.
URLParseFails(u) ==
    \E i \in 1..Len(u) :
        u[i] = "%" /\ ~(i + 2 <= Len(u) /\ IsHex(u[i + 1]) /\ IsHex(u[i + 2]))

\* net/http rejects a method that is not a token (here: one holding a blank).
InvalidMethods == {"BAD METHOD"}

\* http.NewRequest fails on an invalid method or an unparsable URL.
NewRequestFails(method, u) == method \in InvalidMethods \/ URLParseFails(u)

---------------------------------------------------------------------------
(* State *)

Builders == {"r1", "r2"}

DefaultClient == "DefaultClient"
NilClient == "nil"
ClientIds == {DefaultClient}

NoWire == [method |-> "", url |-> <<>>, headers |-> EmptyMap, body |-> ""]
NoRes == [status |-> 0, header |-> EmptyMap, body |-> "", drained |-> FALSE, closed |-> FALSE]

NoView ==
    [client |-> NilClient, headers |-> EmptyMap, queryParams |-> EmptyMap,
     pathParams |-> EmptyMap, context |-> "", body |-> NilBody]

\* The progress and the result of the Do that is the latest call on a builder.
NoExec ==
    [returned |-> FALSE, err |-> NoErr, marshaled |-> "", built |-> FALSE, wire |-> NoWire,
     clientCalls |-> 0, transportCalls |-> 0, transport |-> "", got |-> FALSE, res |-> NoRes,
     transportErr |-> NoErr, decoded |-> "none", sink |-> Unset]

NoCall == [op |-> "none", args |-> <<>>]

\* The fields of a Request, its three maps read through their references.
View(r, h) ==
    [client |-> r.client, headers |-> h[r.headers], queryParams |-> h[r.queryParams],
     pathParams |-> h[r.pathParams], context |-> r.context, body |-> r.body]

\* A NewRequest that hands out the maps of the first builder again.
NewRequestSharing(client, n) ==
    [client |-> IF client = NilClient THEN DefaultClient ELSE client,
     headers |-> 1, queryParams |-> 2, pathParams |-> 3,
     context |-> "Background", body |-> NilBody]

\* NewRequest, with n maps allocated so far: three fresh maps.
NewRequest(client, n) ==
    [client |-> IF client = NilClient THEN DefaultClient ELSE client,
     headers |-> n + 1, queryParams |-> n + 2, pathParams |-> n + 3,
     context |-> "Background", body |-> NilBody]

\* NewClient(nil): the wrapper around a configured http.Client.
NewClient(inner) == [inner |-> IF inner = "nil" THEN "http.Client" ELSE inner]

Init ==
    /\ clients = [c \in ClientIds |-> NewClient("nil")]
    /\ req = [b \in {} |-> NoView]
    /\ heap = <<>>
    /\ pc = [b \in {} |-> "idle"]
    /\ call = [b \in {} |-> NoCall]
    /\ pre = [b \in {} |-> NoView]
    /\ exec = [b \in {} |-> NoExec]
    /\ actor = "none"

---------------------------------------------------------------------------
(* Obtaining a builder *)

Obtain(b, client) ==
    /\ b \notin DOMAIN req
    /\ req' = MapSet(req, b, NewRequest(client, Len(heap)))
    /\ heap' = heap \o <<EmptyMap, EmptyMap, EmptyMap>>
    /\ pc' = MapSet(pc, b, "idle")
    /\ call' = MapSet(call, b, NoCall)
    /\ pre' = MapSet(pre, b, NoView)
    /\ exec' = MapSet(exec, b, NoExec)
    /\ actor' = b
    /\ UNCHANGED clients

\* NewRequest(client), client possibly nil
NewRequestCall(b, client) == Obtain(b, client)

\* Client.R
ClientR(b, c) == Obtain(b, c)

---------------------------------------------------------------------------
(* The chainable setters.  Each returns its receiver.                       *)

\* A setter of builder b that writes m to the map at address a.  call, pre and
\* exec describe the latest Do of a builder for as long as no other call was
\* made on it.
Store(b, a, m) ==
    /\ b \in DOMAIN req /\ pc[b] = "idle"
    /\ heap' = [heap EXCEPT ![a] = m]
    /\ call' = [call EXCEPT ![b] = NoCall]
    /\ pre' = [pre EXCEPT ![b] = NoView]
    /\ exec' = [exec EXCEPT ![b] = NoExec]
    /\ actor' = b
    /\ UNCHANGED <<clients, req, pc>>

SetQueryParam(b, name, value) ==
    /\ b \in DOMAIN req /\ pc[b] = "idle"
    /\ Store(b, req[b].queryParams, MapSet(heap[req[b].queryParams], name, value))

SetQueryParams(b, params) ==
    /\ b \in DOMAIN req /\ pc[b] = "idle"
    /\ Store(b, req[b].queryParams, SetAll(heap[req[b].queryParams], params))

SetPathParam(b, name, value) ==
    /\ b \in DOMAIN req /\ pc[b] = "idle"
    /\ Store(b, req[b].pathParams, MapSet(heap[req[b].pathParams], name, value))

SetPathParams(b, params) ==
    /\ b \in DOMAIN req /\ pc[b] = "idle"
    /\ Store(b, req[b].pathParams, SetAll(heap[req[b].pathParams], params))

SetHeader(b, name, value) ==
    /\ b \in DOMAIN req /\ pc[b] = "idle"
    /\ Store(b, req[b].headers, MapSet(heap[req[b].headers], name, value))

SetHeaders(b, headers) ==
    /\ b \in DOMAIN req /\ pc[b] = "idle"
    /\ Store(b, req[b].headers, SetAll(heap[req[b].headers], headers))

SetBearerToken(b, token) ==
    /\ b \in DOMAIN req /\ pc[b] = "idle"
    /\ Store(b, req[b].headers,
             MapSet(heap[req[b].headers], HeaderAuthorization, "Bearer " \o Str(Trim(token))))

SetBasicAuth(b, userName, password) ==
    /\ b \in DOMAIN req /\ pc[b] = "idle"
    /\ Store(b, req[b].headers,
             MapSet(heap[req[b].headers], HeaderAuthorization,
                    "Basic " \o Base64(userName \o ":" \o password)))

SetBody(b, body) ==
    /\ b \in DOMAIN req /\ pc[b] = "idle"
    /\ req' = [req EXCEPT ![b].body = body]
    /\ call' = [call EXCEPT ![b] = NoCall]
    /\ pre' = [pre EXCEPT ![b] = NoView]
    /\ exec' = [exec EXCEPT ![b] = NoExec]
    /\ actor' = b
    /\ UNCHANGED <<clients, heap, pc>>

---------------------------------------------------------------------------
(* Request.Do *)

\* A Client.Do that tries the transport a second time.
ClientDoRetrying(client, e) ==
    [e EXCEPT !.clientCalls = @ + 1, !.transportCalls = @ + 2, !.transport = client.inner]

\* Client.Do: the request goes to the inner http.Client, once.
ClientDo(client, e) ==
    [e EXCEPT !.clientCalls = @ + 1, !.transportCalls = @ + 1, !.transport = client.inner]

\* A Content-Length update that keeps a value the caller has set.
ContentLengthKept(headers, body) ==
    IF HeaderContentLength \in DOMAIN headers THEN headers
    ELSE MapSet(headers, HeaderContentLength, Itoa(Len(body)))

\* r.SetHeader(HeaderContentLength, fmt.Sprintf("%d", len(body)))
ContentLengthSet(headers, body) == MapSet(headers, HeaderContentLength, Itoa(Len(body)))

\* Do, lines 131-158: marshal, build the URL, set Content-Length, construct
\* the request and hand it to the client.  qorder and porder are the orders
\* in which the two range loops visit their maps.
DoWith(b, method, URL, out, qorder, porder) ==
    LET r == req[b]
        m == marshal(heap[r.headers], r.body)
        final == FinalURL(URL, heap[r.queryParams], qorder, heap[r.pathParams], porder)
        headers == ContentLengthSet(heap[r.headers], m.bytes)
        wire == [method |-> method, url |-> final, headers |-> headers, body |-> m.bytes]
        e == [NoExec EXCEPT !.marshaled = m.bytes]
    IN /\ call' = [call EXCEPT ![b] = [op |-> "Do", args |-> <<method, URL, out>>]]
       /\ pre' = [pre EXCEPT ![b] = View(r, heap)]
       /\ actor' = b
       /\ UNCHANGED <<clients, req>>
       /\ IF m.err # NoErr
          THEN /\ exec' = [exec EXCEPT ![b] = [NoExec EXCEPT !.returned = TRUE, !.err = m.err]]
               /\ UNCHANGED <<heap, pc>>
          ELSE /\ heap' = [heap EXCEPT ![r.headers] = headers]
               /\ IF NewRequestFails(method, final)
                  THEN /\ exec' = [exec EXCEPT ![b] =
                                     [e EXCEPT !.returned = TRUE,
                                               !.err = Err("net/http", "invalid request")]]
                       /\ pc' = pc
                  ELSE /\ exec' = [exec EXCEPT ![b] =
                                     ClientDo(clients[r.client],
                                              [e EXCEPT !.built = TRUE, !.wire = wire])]
                       /\ pc' = [pc EXCEPT ![b] = "sent"]

Do(b, method, URL, out) ==
    /\ b \in DOMAIN req /\ pc[b] = "idle"
    /\ \E qorder \in Orders(DOMAIN heap[req[b].queryParams]),
          porder \in Orders(DOMAIN heap[req[b].pathParams]) :
          DoWith(b, method, URL, out, qorder, porder)

\* The verb shortcuts
Head_(b, URL, out) == Do(b, MethodHead, URL, out)
Options(b, URL, out) == Do(b, MethodOptions, URL, out)
Get(b, URL, out) == Do(b, MethodGet, URL, out)
Post(b, URL, out) == Do(b, MethodPost, URL, out)
Put(b, URL, out) == Do(b, MethodPut, URL, out)
Patch(b, URL, out) == Do(b, MethodPatch, URL, out)
Delete(b, URL, out) == Do(b, MethodDelete, URL, out)

\* What the transport hands back: an error, or a response with its status, its
\* Content-Type header if any, its body, and whether reading or closing the
\* body fails.
TransportError(err) ==
    [err |-> err, status |-> 0, header |-> EmptyMap, body |-> "", readErr |-> FALSE,
     closeErr |-> FALSE]
Response(status, header, body, readErr, closeErr) ==
    [err |-> NoErr, status |-> status, header |-> header, body |-> body,
     readErr |-> readErr, closeErr |-> closeErr]

\* Do, lines 163-186, on a response o, with the output sink out.
Finish(e, o, out) ==
    LET status == NewStatus(o.status)
        got == [e EXCEPT !.got = TRUE,
                         !.returned = TRUE,
                         !.res = [status |-> o.status, header |-> o.header, body |-> o.body,
                                  drained |-> FALSE, closed |-> FALSE]]
        val == HeaderGet(o.header, HeaderContentType)
        u == unmarshall(NewMIME(val), o.body)
    IN IF ~IsSuccess(status)
       THEN [got EXCEPT !.err = Err("http request failed, got status", StatusString(status))]
       ELSE IF o.readErr
       THEN [got EXCEPT !.err = Err("read", "unexpected EOF")]
       ELSE IF o.closeErr
       THEN [got EXCEPT !.res.drained = TRUE, !.res.closed = TRUE,
                        !.err = Err("close", "close failed")]
       ELSE IF out = NilSink
       THEN [got EXCEPT !.res.drained = TRUE, !.res.closed = TRUE, !.err = NoErr]
       ELSE IF val = ""
       THEN [got EXCEPT !.res.drained = TRUE, !.res.closed = TRUE,
                        !.err = Err("could not auto-detect response format", HeaderContentType)]
       ELSE [got EXCEPT !.res.drained = TRUE, !.res.closed = TRUE,
                        !.err = u.err, !.decoded = u.codec,
                        !.sink = IF u.err = NoErr THEN u.val ELSE @]

\* Do, lines 158-187: r.client.Do returns o, and Do runs to its return.
DoReturn(b, o) ==
    /\ b \in DOMAIN req /\ pc[b] = "sent"
    /\ exec' = [exec EXCEPT ![b] =
                  IF o.err # NoErr
                  THEN [@ EXCEPT !.returned = TRUE, !.transportErr = o.err, !.err = o.err]
                  ELSE Finish(@, o, call[b].args[3])]
    /\ pc' = [pc EXCEPT ![b] = "idle"]
    /\ actor' = b
    /\ UNCHANGED <<clients, req, heap, call, pre>>

---------------------------------------------------------------------------
(* Inputs *)

Statuses == {199, 200, 299, 300, 404}

ContentTypes ==
    {MIMEApplicationJSON, MIMEApplicationJSONCharsetUTF8, MIMEApplicationXML,
     MIMEApplicationXMLCharsetUTF8, MIMETextXML, MIMETextPlain}

\* A map with the one entry k: v.
One(k, v) == [x \in {k} |-> v]

TargetURL == <<"/", "x">>

\* A target URL that url.Parse rejects.
BadURL == <<"/", "%">>

\* The responses of the transport: every status; for a successful status
\* every Content-Type with every body, and a failing read or close.
Responses ==
    {Response(s, One(HeaderContentType, MIMEApplicationJSON), JSONMarshal("a").bytes,
              FALSE, FALSE) : s \in Statuses}
    \cup {Response(s, h, body, FALSE, FALSE) :
            s \in {x \in Statuses : x >= 200 /\ x < 300},
            h \in {EmptyMap} \cup {One(HeaderContentType, t) : t \in ContentTypes},
            body \in {JSONMarshal("a").bytes, XMLMarshal("a").bytes, "a"}}
    \cup {Response(200, One(HeaderContentType, MIMEApplicationJSON), JSONMarshal("a").bytes,
                   f[1], f[2]) : f \in {<<TRUE, FALSE>>, <<FALSE, TRUE>>}}

Outcomes == {TransportError(Err("transport", "dial tcp: timeout"))} \cup Responses

---------------------------------------------------------------------------
(* The response side: one builder, few configurations, every outcome of the *)
(* transport.                                                               *)

Next ==
    \/ \E c \in ClientIds : ClientR("r1", c)
    \/ \E c \in ClientIds \cup {NilClient} : NewRequestCall("r1", c)
    \/ SetQueryParam("r1", <<"q">>, <<"a">>)
    \/ SetQueryParams("r1", One(<<"q">>, <<"a">>))
    \/ SetPathParam("r1", <<"x">>, <<"a">>)
    \/ SetPathParams("r1", One(<<"x">>, <<"a">>))
    \/ SetHeader("r1", HeaderContentType, MIMEApplicationJSON)
    \/ SetHeaders("r1", One(HeaderContentType, MIMEApplicationJSON))
    \/ SetBearerToken("r1", <<"tok">>)
    \/ SetBasicAuth("r1", "user", "pw")
    \/ \E body \in {NilBody, "a"} : SetBody("r1", body)
    \/ \E method \in {MethodGet, "BAD METHOD"}, out \in {NilSink, PtrSink} :
          Do("r1", method, TargetURL, out)
    \/ Do("r1", MethodGet, BadURL, NilSink)
    \/ Head_("r1", TargetURL, NilSink)
    \/ Options("r1", TargetURL, NilSink)
    \/ Get("r1", TargetURL, PtrSink)
    \/ Post("r1", TargetURL, PtrSink)
    \/ Put("r1", TargetURL, PtrSink)
    \/ Patch("r1", TargetURL, PtrSink)
    \/ Delete("r1", TargetURL, NilSink)
    \/ \E o \in Outcomes : DoReturn("r1", o)

Spec == Init /\ [][Next]_vars

---------------------------------------------------------------------------
(* The request side: one builder, every Content-Type and body, a Content-   *)
(* Length set by the caller, and three outcomes of the transport.           *)

FewOutcomes ==
    {TransportError(Err("transport", "dial tcp: timeout")),
     Response(201, One(HeaderContentType, MIMEApplicationJSONCharsetUTF8),
              JSONMarshal("a").bytes, FALSE, FALSE),
     Response(404, EmptyMap, "", FALSE, FALSE)}

NextRequest ==
    \/ \E c \in ClientIds : ClientR("r1", c)
    \/ \E c \in ClientIds \cup {NilClient} : NewRequestCall("r1", c)
    \/ SetQueryParam("r1", <<"q">>, <<"a">>)
    \/ SetQueryParams("r1", One(<<"q">>, <<"a">>))
    \/ SetPathParam("r1", <<"x">>, <<"a">>)
    \/ SetPathParams("r1", One(<<"x">>, <<"a">>))
    \/ \E t \in ContentTypes : SetHeader("r1", HeaderContentType, t)
    \/ SetHeader("r1", HeaderContentLength, "7")
    \/ SetHeaders("r1", One(HeaderContentType, MIMEApplicationJSON))
    \/ SetBearerToken("r1", <<"tok">>)
    \/ SetBasicAuth("r1", "user", "pw")
    \/ \E body \in {NilBody, ChanBody} \cup Values : SetBody("r1", body)
    \/ \E method \in {MethodGet, "BAD METHOD"}, out \in {NilSink, PtrSink} :
          Do("r1", method, TargetURL, out)
    \/ Post("r1", TargetURL, PtrSink)
    \/ \E o \in FewOutcomes : DoReturn("r1", o)

SpecRequest == Init /\ [][NextRequest]_vars

---------------------------------------------------------------------------
(* Properties of the response side, under Spec *)

\* The Do of builder b has returned after the transport gave it a response.
ReturnedWithResponse(b) == exec[b].returned /\ exec[b].got

StatusErrorKind == "http request failed, got status"

\* C1: once the transport has returned a response, Do drains and closes its
\* body on every exit path before it returns.
C1_ReleasedOnEveryExit ==
    \A b \in DOMAIN req :
        ReturnedWithResponse(b) => exec[b].res.drained /\ exec[b].res.closed

\* C2: Do returns an HTTP status error, carrying the code and its reason text,
\* if and only if the status is outside [200,300); then nothing is decoded
\* into the sink.
C2_StatusErrorIffOutside2xx ==
    \A b \in DOMAIN req :
        ReturnedWithResponse(b) =>
            LET s == exec[b].res.status
                e == exec[b].err
            IN /\ (e.kind = StatusErrorKind) <=> (s < 200 \/ s > 299)
               /\ e.kind = StatusErrorKind =>
                    /\ exec[b].decoded = "none"
                    /\ exec[b].sink = Unset
                    /\ s = 199 => e.arg = "199: "
                    /\ s = 300 => e.arg = "300: Multiple Choices"
                    /\ s = 404 => e.arg = "404: Not Found"

\* C2 witness: a response with status 300 came back and Do returned the status
\* error.
C2_Witness ==
    \E b \in DOMAIN req :
        /\ ReturnedWithResponse(b)
        /\ exec[b].res.status = 300
        /\ exec[b].err.kind = StatusErrorKind

JSONFamily == {MIMEApplicationJSON, MIMEApplicationJSONCharsetUTF8}
XMLFamily ==
    {MIMEApplicationXML, MIMEApplicationXMLCharsetUTF8, MIMETextXML, MIMETextXMLCharsetUTF8}

\* C5: for a status in [200,300) whose body was read and closed, the outcome
\* is decided by the sink and the response Content-Type: success with a nil
\* sink; otherwise missing-content-type for an absent header, unsupported-
\* format naming the type for one outside the JSON and XML families, and else
\* the matching codec's result.
C5_OutcomeBySinkAndContentType ==
    \A b \in DOMAIN req :
        (/\ ReturnedWithResponse(b)
         /\ exec[b].res.status >= 200 /\ exec[b].res.status < 300
         /\ exec[b].res.closed /\ exec[b].err.kind # "close") =>
            LET out == call[b].args[3]
                h == exec[b].res.header
                e == exec[b].err
            IN IF out = NilSink THEN e = NoErr
               ELSE IF HeaderContentType \notin DOMAIN h
               THEN e.kind = "could not auto-detect response format"
               ELSE IF h[HeaderContentType] \in JSONFamily
               THEN exec[b].decoded = "json" /\ e = JSONUnmarshal(exec[b].res.body).err
               ELSE IF h[HeaderContentType] \in XMLFamily
               THEN exec[b].decoded = "xml" /\ e = XMLUnmarshal(exec[b].res.body).err
               ELSE /\ e.kind = "deserializing format not supported"
                    /\ e.arg = h[HeaderContentType]

\* C6: a Do that gets past marshaling and request construction calls the
\* client once and the client calls the transport once; one that fails before
\* calls neither; a transport error is returned unchanged, with no second
\* attempt.
C6_OneAttempt ==
    \A b \in DOMAIN req :
        /\ b \in DOMAIN req /\ pc[b] = "sent" => exec[b].clientCalls = 1 /\ exec[b].transportCalls = 1
        /\ exec[b].returned =>
            /\ exec[b].built => exec[b].clientCalls = 1 /\ exec[b].transportCalls = 1
            /\ ~exec[b].built => exec[b].clientCalls = 0 /\ exec[b].transportCalls = 0
            /\ exec[b].built <=>
                 /\ marshal(pre[b].headers, pre[b].body).err = NoErr
                 /\ call[b].args[1] # "BAD METHOD"
                 /\ call[b].args[2] # BadURL
            /\ exec[b].transportErr # NoErr =>
                 /\ exec[b].err = exec[b].transportErr
                 /\ ~exec[b].got

\* C6 witness: the transport failed and Do returned after its single attempt.
C6_Witness ==
    \E b \in DOMAIN req :
        /\ exec[b].returned
        /\ exec[b].transportErr # NoErr
        /\ exec[b].transportCalls = 1

---------------------------------------------------------------------------
(* Properties of the request side, under SpecRequest *)

\* C3: with a body set and no Content-Type header, Do fails with the
\* missing-content-type error and neither the client nor the transport is
\* called; with no body set, marshaling yields no bytes and a missing
\* Content-Type is no error.
C3_BodyNeedsContentType ==
    \A b \in DOMAIN req :
        exec[b].returned =>
            /\ (pre[b].body # NilBody /\ HeaderContentType \notin DOMAIN pre[b].headers) =>
                 /\ exec[b].err = Err("not defined", "Content-Type")
                 /\ ~exec[b].built
                 /\ exec[b].clientCalls = 0
                 /\ exec[b].transportCalls = 0
            /\ pre[b].body = NilBody =>
                 /\ exec[b].err.kind \notin {"not defined", "serializing format not supported"}
                 /\ exec[b].marshaled = ""
                 /\ exec[b].built => exec[b].wire.body = ""
                 /\ exec[b].built <=> call[b].args[1] \notin InvalidMethods

\* C3 witness: a Do with a body and no Content-Type returned the error.
C3_Witness ==
    \E b \in DOMAIN req :
        /\ exec[b].returned
        /\ pre[b].body = "a"
        /\ HeaderContentType \notin DOMAIN pre[b].headers
        /\ exec[b].err.kind = "not defined"

\* C4: with a body set, the Content-Type header chooses the codec: JSON (with
\* or without charset) the JSON encoder, XML (with or without charset) the XML
\* encoder; any other value fails with an unsupported-format error that names
\* the configured content type, and the transport is not called.
C4_CodecByContentType ==
    \A b \in DOMAIN req :
        (/\ exec[b].returned
         /\ pre[b].body # NilBody
         /\ HeaderContentType \in DOMAIN pre[b].headers) =>
            LET t == pre[b].headers[HeaderContentType]
                j == JSONMarshal(pre[b].body)
                x == XMLMarshal(pre[b].body)
            IN IF t \in {MIMEApplicationJSON, MIMEApplicationJSONCharsetUTF8}
               THEN IF j.err # NoErr THEN exec[b].err = j.err ELSE exec[b].marshaled = j.bytes
               ELSE IF t \in {MIMEApplicationXML, MIMEApplicationXMLCharsetUTF8}
               THEN IF x.err # NoErr THEN exec[b].err = x.err ELSE exec[b].marshaled = x.bytes
               ELSE /\ exec[b].err = Err("serializing format not supported", t)
                    /\ exec[b].transportCalls = 0

\* The Do of builder b from an idle builder to a sent request, repeating the
\* method and URL of the Do before it, with no other call in between.
RepeatedDo(b) ==
    /\ b \in DOMAIN req
    /\ pc[b] = "idle" /\ exec[b].returned /\ exec[b].built
    /\ pc'[b] = "sent"
    /\ call'[b].args[1] = call[b].args[1]
    /\ call'[b].args[2] = call[b].args[2]

\* The state of builder b is what it was before its Do, but for Content-Length,
\* which is the length of the marshaled body; a Do that failed to marshal left
\* it as it was.
OnlyContentLengthChanged(b) ==
    LET now == View(req[b], heap)
        failed == exec[b].err.kind \in {"not defined", "serializing format not supported",
                                        "json", "xml"} /\ ~exec[b].got
    IN IF failed THEN now = pre[b]
       ELSE /\ now.client = pre[b].client
            /\ now.body = pre[b].body
            /\ now.context = pre[b].context
            /\ now.queryParams = pre[b].queryParams
            /\ now.pathParams = pre[b].pathParams
            /\ DOMAIN now.headers = DOMAIN pre[b].headers \cup {HeaderContentLength}
            /\ \A h \in DOMAIN pre[b].headers \ {HeaderContentLength} :
                  now.headers[h] = pre[b].headers[h]
            /\ now.headers[HeaderContentLength] = Itoa(Len(exec[b].marshaled))
            /\ pre[b].body = NilBody => now.headers[HeaderContentLength] = "0"
            /\ pre[b].body = "a" /\ exec[b].built =>
                  now.headers[HeaderContentLength] = Itoa(Len(exec[b].wire.body))

\* C10: Do changes the builder only by setting Content-Length to the length
\* of the marshaled body, over any value the caller set, and not at all when
\* marshaling fails; a Do repeated with the same method and URL builds a
\* request with the same headers, body and parameters.
C10_DoOnlySetsContentLength ==
    /\ [](\A b \in DOMAIN req : call[b].op = "Do" => OnlyContentLengthChanged(b))
    /\ [][\A b \in Builders :
            RepeatedDo(b) =>
                /\ exec'[b].wire.headers = exec[b].wire.headers
                /\ exec'[b].wire.body = exec[b].wire.body
                /\ exec'[b].wire.method = exec[b].wire.method
                /\ pre'[b].queryParams = pre[b].queryParams
                /\ pre'[b].pathParams = pre[b].pathParams
                /\ pre'[b].body = pre[b].body]_vars

\* C10 witness: the caller had set Content-Length to "7" and Do sent a request
\* whose Content-Length is the length of the JSON body.
C10_Witness ==
    \E b \in DOMAIN req :
        /\ call[b].op = "Do"
        /\ exec[b].built
        /\ HeaderContentLength \in DOMAIN pre[b].headers
        /\ pre[b].headers[HeaderContentLength] = "7"
        /\ pre[b].body = "a"
        /\ exec[b].wire.headers[HeaderContentLength] = "3"

---------------------------------------------------------------------------
(* The URL: one builder, path and query parameters whose names and values   *)
(* overlap, and target URLs that hold the path-parameter names.             *)

ID == <<"i", "d">>
X == <<"x">>
Q == <<"q">>

QueryNames == {ID, Q}
QueryValues == {<<"a">>, <<"b", " ">>}
PathNames == {ID, X}
PathValues == {<<"7">>, <<"a", "/", "x">>}
TargetURLs == {<<"/", "i", "d">>, <<"/", "x", "/", "i", "d">>}

NextURL ==
    \/ \E c \in ClientIds : ClientR("r1", c)
    \/ \E c \in ClientIds \cup {NilClient} : NewRequestCall("r1", c)
    \/ \E n \in QueryNames, v \in QueryValues : SetQueryParam("r1", n, v)
    \/ SetQueryParams("r1", One(Q, <<"a">>))
    \/ \E n \in PathNames, v \in PathValues : SetPathParam("r1", n, v)
    \/ SetPathParams("r1", One(X, <<"7">>))
    \/ SetHeader("r1", HeaderAccept, MIMEApplicationJSON)
    \/ SetHeaders("r1", One(HeaderAccept, MIMEApplicationJSON))
    \/ SetBearerToken("r1", <<"tok">>)
    \/ SetBasicAuth("r1", "user", "pw")
    \/ SetBody("r1", NilBody)
    \/ \E URL \in TargetURLs : Do("r1", MethodGet, URL, NilSink)
    \/ \E URL \in TargetURLs : Get("r1", URL, NilSink)
    \/ \E o \in {TransportError(Err("transport", "dial tcp: timeout")),
                 Response(200, EmptyMap, "", FALSE, FALSE)} : DoReturn("r1", o)

SpecURL == Init /\ [][NextURL]_vars

\* C7: the URL Do sends is the target URL with every path-parameter name
\* replaced by its escaped value, followed by "?" and the escaped query pairs
\* joined by "&"; the query suffix holds the configured query parameters alone.
C7_PathThenQuerySuffix ==
    \A b \in DOMAIN req :
        exec[b].built =>
            \E qorder \in Orders(DOMAIN pre[b].queryParams),
               porder \in Orders(DOMAIN pre[b].pathParams) :
                exec[b].wire.url =
                    ReplacePathParams(call[b].args[2], pre[b].pathParams, porder)
                    \o <<"?">>
                    \o Join(QueryPairs(pre[b].queryParams, qorder), <<"&">>)

\* C11: the URL Do sends is a function of the builder's state, the method
\* and the target URL: it is the URL that every order of visiting the query
\* and path parameters gives.  Stated for builders with at most one query
\* parameter, where only the order of the path parameters can differ.
C11_URLWhateverTheOrder ==
    \A b \in DOMAIN req :
        (exec[b].built /\ Cardinality(DOMAIN pre[b].queryParams) <= 1) =>
            \A qorder \in Orders(DOMAIN pre[b].queryParams),
               porder \in Orders(DOMAIN pre[b].pathParams) :
                exec[b].wire.url =
                    FinalURL(call[b].args[2], pre[b].queryParams, qorder,
                             pre[b].pathParams, porder)

---------------------------------------------------------------------------
(* The setters: one builder, single and bulk calls that overwrite, add and  *)
(* leave entries.                                                           *)

\* A map with the two entries k1: v1 and k2: v2.
Two(k1, v1, k2, v2) == [x \in {k1, k2} |-> IF x = k1 THEN v1 ELSE v2]

ParamMaps(names, values) ==
    {EmptyMap} \cup {One(n, v) : n \in names, v \in values}
    \cup {Two(n1, v, n2, v) : n1 \in names, n2 \in names, v \in values}

HeaderNames == {HeaderContentType, HeaderAccept}
HeaderValues == {MIMEApplicationJSON}
Tokens == {<<" ", "tok", " ">>, <<"to", " ", "k">>}

NextSetters ==
    \/ \E c \in ClientIds : ClientR("r1", c)
    \/ \E c \in ClientIds \cup {NilClient} : NewRequestCall("r1", c)
    \/ \E n \in QueryNames, v \in QueryValues : SetQueryParam("r1", n, v)
    \/ \E params \in ParamMaps(QueryNames, QueryValues) : SetQueryParams("r1", params)
    \/ \E n \in PathNames, v \in {<<"7">>} : SetPathParam("r1", n, v)
    \/ \E params \in ParamMaps(PathNames, {<<"7">>}) : SetPathParams("r1", params)
    \/ \E n \in HeaderNames, v \in HeaderValues : SetHeader("r1", n, v)
    \/ \E headers \in ParamMaps(HeaderNames, HeaderValues) : SetHeaders("r1", headers)
    \/ \E token \in Tokens : SetBearerToken("r1", token)
    \/ SetBasicAuth("r1", "user", "pw")
    \/ \E body \in {NilBody, "a"} : SetBody("r1", body)
    \/ Do("r1", MethodGet, TargetURL, NilSink)
    \/ DoReturn("r1", Response(200, EmptyMap, "", FALSE, FALSE))

SpecSetters == Init /\ [][NextSetters]_vars

\* The map new is old with the entries of params put over it: the names of
\* params have their values, every other name is as it was.
Merged(old, new, params) ==
    /\ DOMAIN new = DOMAIN old \cup DOMAIN params
    /\ \A n \in DOMAIN params : new[n] = params[n]
    /\ \A n \in DOMAIN old \ DOMAIN params : new[n] = old[n]

\* A step on builder b that merged params into the mapping `field` and left
\* the other mappings, the body and the builder itself as they were.
SetterEffect(b, field, params) ==
    LET old == View(req[b], heap)
        new == View(req'[b], heap')
    IN /\ req'[b] = req[b]
       /\ Merged(old[field], new[field], params)
       /\ \A f \in {"headers", "queryParams", "pathParams"} \ {field} : new[f] = old[f]
       /\ new.body = old.body
       /\ new.client = old.client

\* C8: each setter puts the values of its call over the entries of its own
\* mapping (a later value for a name replaces the earlier one, a bulk call
\* keeps the names it does not mention), a fresh builder has no entries, and
\* the other two mappings and the body are left alone; the call returns the
\* builder it was made on.
C8_SettersMergeIntoTheirMapping ==
    [][\A b \in Builders :
         /\ (b \notin DOMAIN req /\ b \in DOMAIN req') =>
               /\ heap'[req'[b].headers] = EmptyMap
               /\ heap'[req'[b].queryParams] = EmptyMap
               /\ heap'[req'[b].pathParams] = EmptyMap
               /\ req'[b].body = NilBody
         /\ \A n \in QueryNames, v \in QueryValues :
               SetQueryParam(b, n, v) => SetterEffect(b, "queryParams", One(n, v))
         /\ \A params \in ParamMaps(QueryNames, QueryValues) :
               SetQueryParams(b, params) => SetterEffect(b, "queryParams", params)
         /\ \A n \in PathNames :
               SetPathParam(b, n, <<"7">>) => SetterEffect(b, "pathParams", One(n, <<"7">>))
         /\ \A params \in ParamMaps(PathNames, {<<"7">>}) :
               SetPathParams(b, params) => SetterEffect(b, "pathParams", params)
         /\ \A n \in HeaderNames, v \in HeaderValues :
               SetHeader(b, n, v) => SetterEffect(b, "headers", One(n, v))
         /\ \A headers \in ParamMaps(HeaderNames, HeaderValues) :
               SetHeaders(b, headers) => SetterEffect(b, "headers", headers)
         /\ SetBearerToken(b, <<" ", "tok", " ">>) =>
               SetterEffect(b, "headers", One(HeaderAuthorization, "Bearer tok"))
         /\ SetBearerToken(b, <<"to", " ", "k">>) =>
               SetterEffect(b, "headers", One(HeaderAuthorization, "Bearer to k"))
         /\ SetBasicAuth(b, "user", "pw") =>
               SetterEffect(b, "headers", One(HeaderAuthorization, "Basic b64(user:pw)"))]_vars

\* C8 witness: a bulk call has overwritten one query parameter and kept
\* another, next to a header and a path parameter.
C8_Witness ==
    \E b \in DOMAIN req :
        /\ heap[req[b].queryParams] = Two(ID, <<"b", " ">>, Q, <<"a">>)
        /\ heap[req[b].headers] = Two(HeaderContentType, MIMEApplicationJSON,
                                      HeaderAuthorization, "Bearer tok")
        /\ heap[req[b].pathParams] = One(X, <<"7">>)

---------------------------------------------------------------------------
(* Two builders of one Client, their calls interleaved.                     *)

NextConc ==
    \E b \in Builders :
        \/ \E c \in ClientIds : ClientR(b, c)
        \/ NewRequestCall(b, NilClient)
        \/ SetQueryParam(b, Q, <<b>>)
        \/ SetPathParam(b, X, <<b>>)
        \/ SetHeader(b, HeaderContentType, MIMEApplicationJSON)
        \/ SetBody(b, "a")
        \/ Do(b, MethodGet, TargetURL, PtrSink)
        \/ \E o \in {TransportError(Err("transport", "dial tcp: timeout")),
                     Response(404, EmptyMap, "", FALSE, FALSE)} : DoReturn(b, o)

SpecConc == Init /\ [][NextConc]_vars

\* The request that builder b sent is the one its own state before the Do
\* gives: its own headers with the Content-Length, its own parameters in the
\* URL, its own body in JSON.
OwnRequest(b) ==
    /\ exec[b].wire.body = (IF pre[b].body = NilBody THEN "" ELSE "\"a\"")
    /\ exec[b].wire.headers =
         MapSet(pre[b].headers, HeaderContentLength,
                IF pre[b].body = NilBody THEN "0" ELSE "3")
    /\ exec[b].wire.url =
         <<"/">>
         \o (IF X \in DOMAIN pre[b].pathParams THEN <<b>> ELSE X)
         \o <<"?">>
         \o (IF Q \in DOMAIN pre[b].queryParams THEN <<"q", "=", b>> ELSE <<>>)
    /\ pre[b] = [View(req[b], heap) EXCEPT !.headers = pre[b].headers]

\* C9: whatever the interleaving of two builders of one Client, the Client
\* does not change, a step of one builder leaves the other builder's headers,
\* parameters, body and pending Do as they were, the builders share no map,
\* and each sends the request its own state gives.
C9_BuildersDoNotInterfere ==
    /\ [](/\ clients = [c \in ClientIds |-> [inner |-> "http.Client"]]
          /\ \A b1, b2 \in DOMAIN req :
                b1 # b2 =>
                    {req[b1].headers, req[b1].queryParams, req[b1].pathParams}
                    \cap {req[b2].headers, req[b2].queryParams, req[b2].pathParams} = {}
          /\ \A b \in DOMAIN req : exec[b].built => OwnRequest(b))
    /\ [][\A b \in DOMAIN req :
            actor' # b =>
                /\ View(req'[b], heap') = View(req[b], heap)
                /\ exec'[b] = exec[b]
                /\ pc'[b] = pc[b]]_vars

\* C9 witness: both builders have a request in flight, each with a path
\* parameter of its own.
C9_Witness ==
    /\ DOMAIN req = Builders
    /\ \A b \in Builders :
          /\ pc[b] = "sent"
          /\ pre[b].pathParams = One(X, <<b>>)
          /\ exec[b].wire.url = <<"/", b, "?">>

====
